---- MODULE Spec2Model ----
(***************************************************************************)
(* Session-scoped semantic memory engine (PineconeMemoryManager) of the    *)
(* voice assistant: store, search (filter, threshold, session re-check,    *)
(* similarity+recency ranking, truncation), enumeration and deletes, over  *)
(* an external vector index.                                               *)
(*                                                                         *)
(* Conventions.  Similarity is in percent (0.7 is 70).  Time is in hours   *)
(* since the process started (the code works in milliseconds; the window   *)
(* of 24*60*60*1000 ms is 24 here).  A combined score s of the code is     *)
(* represented by the integer s * 1000 * 24, so comparisons are exact;     *)
(* floating-point rounding is not modelled.  The vector index is the       *)
(* environment: each call to it may fail, and a query may be answered      *)
(* faithfully (exactly the records satisfying the filter, best score       *)
(* first) or by any list of stored records with any scores.                *)
(***************************************************************************)
EXTENDS Integers, Sequences, FiniteSets, TLC

\* ---------------------------------------------------------------- bounds
MaxRecords == 2      \* records the index may hold
MaxTicks == 1        \* clock advances in a behaviour
MaxLimit == 2        \* largest `limit` a caller passes

\* ------------------------------------------------------ program constants
SimilarityThreshold == 70
DayHours == 24
EmbeddingDim == 1024
UserMemoriesDim == 1536
DeleteDim == 1024
MinTopK == 10
EnumerateTopK == 1000
SampleTopK == 100
StatsDim == 1024

\* ------------------------------------------------------------ input sets
Users == {"u1", "u2"}
Sessions == {"s1", "s2"}
Undefined == "undefined"
SessionArgs == Sessions \cup {"", Undefined}
Limits == 1..MaxLimit
Scores == {60, 70, 90}
TickSteps == {23}
Rands == {1}
AnyUser == "*"
\* a userId argument as a caller may pass it: a user, or the empty string
UserArgs == Users \cup {""}
\* the kinds of a memory document, and the kind the engine lifecycle stores
Types == {"conversation", "web_search", "document", "summary"}
StoreTypes == {"conversation"}
\* the keys of the `types` record of getMemoryStats
CountedTypes == {"conversation", "web_search", "document"}

VARIABLES isInitialized, initPc, index, now, ticks, last, rerun,
          chatPc, chat, req, calls

vars == <<isInitialized, initPc, index, now, ticks, last, rerun,
          chatPc, chat, req, calls>>

\* the chat store, the request being served and the engine calls in flight
appVars == <<chatPc, chat, req, calls>>

Min(a, b) == IF a < b THEN a ELSE b
Max(a, b) == IF a > b THEN a ELSE b

\* JavaScript truthiness of an optional string: undefined and '' are falsy.
Truthy(s) == s # Undefined /\ s # ""

NoId == [t |-> 0 - 1, r |-> 0]

\* The observation of the most recent engine call.
Idle ==
  [op |-> "none", userId |-> "", sessionId |-> "", limit |-> 0, id |-> NoId,
   ready |-> FALSE, debugFailed |-> FALSE, failed |-> FALSE,
   faithful |-> TRUE, answered |-> 0, low |-> 0, kept |-> <<>>, outcome |-> "return",
   results |-> <<>>, ret |-> "", count |-> 0, at |-> 0,
   userFailed |-> FALSE, typesFailed |-> FALSE, totalMemories |-> 0,
   unreachable |-> FALSE,
   types |-> [k \in CountedTypes |-> 0]]

\* ------------------------------------------------------ the vector index
\* Does record r satisfy a metadata filter?  A filter constrains userId
\* ($eq, or AnyUser for no constraint) and sessionId (none, $eq v, $ne v).
\* neAbsent: whether the index lets $ne match a record that lacks the
\* attribute altogether.
Satisfies(filter, r, neAbsent) ==
  /\ filter.userId # AnyUser => r.userId = filter.userId
  /\ CASE filter.sessOp = "eq" -> r.sessionId = filter.sessVal
       [] filter.sessOp = "ne" ->
            IF r.sessionId = Undefined THEN neAbsent
            ELSE r.sessionId # filter.sessVal
       [] OTHER -> TRUE

Orderings(S) ==
  {o \in [1..Cardinality(S) -> S] : \A i, j \in 1..Cardinality(S) : i # j => o[i] # o[j]}

\* Every list of the records of S, each with a score.
Responses(S) ==
  {[i \in 1..Cardinality(S) |-> [rec |-> o[i], score |-> f[i]]] :
     o \in Orderings(S), f \in [1..Cardinality(S) -> Scores]}

Ranked(m) == \A i \in 1..(Len(m) - 1) : m[i].score >= m[i + 1].score

Take(s, k) == SubSeq(s, 1, Min(k, Len(s)))

\* What a query may answer: a list of stored records, each with a score.
\* (An index or driver with a filter bug may return any of them.)
QueryAnswers == UNION {Responses(S) : S \in SUBSET index}

\* The answer of an index that applies the filter: the matching records,
\* best score first, at most topK of them.
Faithful(matches, filter, topK) ==
  /\ Ranked(matches)
  /\ \E b \in BOOLEAN :
       LET matching == {r \in index : Satisfies(filter, r, b)}
       IN /\ {matches[i].rec : i \in 1..Len(matches)} \subseteq matching
          /\ Len(matches) = Min(topK, Cardinality(matching))

\* Outcomes of the failure of one index call: a query whose vector has not
\* the dimension of the index is always rejected.
CallFails(dim) == IF dim # EmbeddingDim THEN {TRUE} ELSE BOOLEAN

Upsert(idx, rec) == {r \in idx : r.id # rec.id} \cup {rec}

\* ----------------------------------------------------------- the ranking
RecencyNoClamp(timestamp, t) ==
  DayHours - (t - timestamp)

RecencyHalfDay(timestamp, t) ==
  Max(0, 12 - (t - timestamp)) * 2

\* the recency factor, times DayHours
Recency(timestamp, t) ==
  Max(0, DayHours - (t - timestamp))

CombinedScoreSimilarityOnly(x, t) ==
  x.score * 7 * DayHours

\* the combined score, times 1000 * DayHours
CombinedScore(x, t) ==
  (x.score * 7 * DayHours) + (Recency(x.rec.timestamp, t) * 300)

\* comparator of the sort: negative when a goes first.  The code reads
\* Date.now() in every comparison; the sort is synchronous, so all the
\* comparisons of one sort read the same hour t.
Compare(a, b, t) == CombinedScore(b, t) - CombinedScore(a, t)

\* Array.prototype.sort is stable: x goes after every element that does not
\* compare greater than it.
RECURSIVE InsertSorted(_, _, _)
InsertSorted(s, x, t) ==
  IF s = <<>> THEN <<x>>
  ELSE IF Compare(s[Len(s)], x, t) <= 0 THEN Append(s, x)
       ELSE Append(InsertSorted(SubSeq(s, 1, Len(s) - 1), x, t), s[Len(s)])

RECURSIVE SortResults(_, _)
SortResults(s, t) ==
  IF s = <<>> THEN <<>>
  ELSE InsertSorted(SortResults(SubSeq(s, 1, Len(s) - 1), t), s[Len(s)], t)

KeepMatchNoSessionCheck(m, sessionId) ==
  m.score >= SimilarityThreshold

KeepMatchNoThreshold(m, sessionId) ==
  /\ ~(Truthy(sessionId) /\ m.rec.sessionId # sessionId)
  /\ ~(Truthy(sessionId) /\ (m.rec.sessionId = Undefined \/ m.rec.sessionId = ""))

\* the loop over results.matches
KeepMatch(m, sessionId) ==
  /\ m.score >= SimilarityThreshold
  /\ ~(Truthy(sessionId) /\ m.rec.sessionId # sessionId)
  /\ ~(Truthy(sessionId) /\ (m.rec.sessionId = Undefined \/ m.rec.sessionId = ""))

RECURSIVE ProcessResults(_, _)
ProcessResults(matches, sessionId) ==
  IF matches = <<>> THEN <<>>
  ELSE LET rest == ProcessResults(SubSeq(matches, 1, Len(matches) - 1), sessionId)
           m == matches[Len(matches)]
       IN IF KeepMatch(m, sessionId) THEN Append(rest, m) ELSE rest

SearchFilterNoUser(userId, sessionId) ==
  IF Truthy(sessionId)
  THEN [userId |-> AnyUser, sessOp |-> "eq", sessVal |-> sessionId]
  ELSE [userId |-> AnyUser, sessOp |-> "ne", sessVal |-> ""]

SearchFilter(userId, sessionId) ==
  IF Truthy(sessionId)
  THEN [userId |-> userId, sessOp |-> "eq", sessVal |-> sessionId]
  ELSE [userId |-> userId, sessOp |-> "ne", sessVal |-> ""]

SearchTopK(limit) == Max(limit * 2, MinTopK)

RankNoSlice(searchResults, limit, t) ==
  SortResults(searchResults, t)

\* the sort and the final slice(0, limit)
RankAndSlice(searchResults, limit, t) ==
  Take(SortResults(searchResults, t), limit)

\* --------------------------------------------- guards and catch blocks
\* storeMemory when the engine is not initialized
StoreDisabled(call) == [call EXCEPT !.ret = "memory_disabled"]

StoreCatchRethrows(call) == [call EXCEPT !.outcome = "throw"]

\* catch block of storeMemory
StoreCatch(call) == [call EXCEPT !.ret = "memory_error"]

\* searchMemories when the engine is not initialized
SearchDisabled(call) == [call EXCEPT !.results = <<>>]

\* catch block of searchMemories
SearchCatch(call) == [call EXCEPT !.results = <<>>]

\* `throw new MemoryError('Memory manager is not initialized')`
ThrowNotInitialized(call) == [call EXCEPT !.outcome = "throw"]

SwallowAndReturnNothing(call) == [call EXCEPT !.results = <<>>, !.count = 0]

\* catch blocks of getUserMemories and of the delete operations
RethrowMemoryError(call) == [call EXCEPT !.outcome = "throw"]

BelowThreshold(matches) ==
  Cardinality({i \in 1..Len(matches) : matches[i].score < SimilarityThreshold})

\* ----------------------------------------------------- application state
\* the longest transcript of a chat session that is explored
MaxMessages == 16
\* getConversationContext renders the last ContextWindow messages
ContextWindow == 15
\* the chat sessions that createChatSession makes; other ids stay unknown
ChatSessions == {"s1"}
\* the empty string as a rendered context, and a rendered context of lines
NoContext == [header |-> FALSE, lines |-> <<>>, threw |-> FALSE]
\* no application request is being served
NoRequest ==
  [op |-> "none", pc |-> "idle", userId |-> "", sessionId |-> "",
   bodySessionId |-> "", webSearch |-> FALSE,
   searchReady |-> FALSE, searchFailed |-> FALSE, memories |-> <<>>,
   chatFailed |-> FALSE, context |-> NoContext, prompt |-> <<>>,
   invokeFailed |-> FALSE, responded |-> FALSE, answer |-> <<>>,
   storeReady |-> FALSE, storeFailed |-> FALSE, stored |-> <<>>,
   trace |-> <<>>, outcome |-> "none"]
\* the chat store is connecting and holds nothing; nothing is being served
AppIdle ==
  /\ chatPc = "connecting"
  /\ chat = <<>>
  /\ req = NoRequest
  /\ calls = <<>>

\* ------------------------------------------------------------------ Init
Init ==
  /\ isInitialized = FALSE
  /\ initPc = "running"
  /\ index = {}
  /\ now = 0
  /\ ticks = 0
  /\ last = Idle
  /\ rerun = <<>>
  /\ AppIdle

\* --------------------------------------------------------------- actions
InitializeRepeats ==
  /\ initPc = "running"
  /\ isInitialized' = ~isInitialized
  /\ initPc' = "running"
  /\ UNCHANGED appVars
  /\ UNCHANGED <<index, now, ticks, last, rerun>>

\* initialize(): the connection test succeeded
InitializeOk ==
  /\ initPc = "running"
  /\ isInitialized' = TRUE
  /\ initPc' = "done"
  /\ UNCHANGED appVars
  /\ UNCHANGED <<index, now, ticks, last, rerun>>

\* initialize(): configuration missing or the connection test threw
InitializeFail ==
  /\ initPc = "running"
  /\ isInitialized' = FALSE
  /\ initPc' = "done"
  /\ UNCHANGED appVars
  /\ UNCHANGED <<index, now, ticks, last, rerun>>

\* the wall clock advances
Tick ==
  /\ ticks < MaxTicks
  /\ \E d \in TickSteps : now' = now + d
  /\ ticks' = ticks + 1
  /\ UNCHANGED appVars
  /\ UNCHANGED <<isInitialized, initPc, index, last, rerun>>

\* storeMemory, called with a userId, a sessionId and a type of the given sets
StoreMemoryWith(users, sessions, types) ==
  \E userId \in users, sessionId \in sessions, rnd \in Rands, type \in types :
    LET id == [t |-> now, r |-> rnd]
        rec == [id |-> id, userId |-> userId,
                sessionId |-> IF Truthy(sessionId) THEN sessionId ELSE "",
                timestamp |-> now, type |-> type]
        call == [Idle EXCEPT !.op = "store", !.userId = userId,
                             !.sessionId = sessionId, !.ready = isInitialized,
                             !.at = now]
    IN /\ last.op = "none"
       /\ UNCHANGED <<isInitialized, initPc, now, ticks, rerun>>
       /\ IF ~isInitialized
          THEN /\ last' = StoreDisabled(call)
               /\ UNCHANGED index
          ELSE \E failed \in CallFails(EmbeddingDim) :
                 IF failed
                 THEN /\ last' = StoreCatch([call EXCEPT !.failed = TRUE])
                      /\ UNCHANGED index
                 ELSE /\ Cardinality(Upsert(index, rec)) <= MaxRecords
                      /\ index' = Upsert(index, rec)
                      /\ last' = [call EXCEPT !.ret = "id", !.id = id]

\* storeMemory, called with a userId of the set `users`
StoreMemoryFor(users) == StoreMemoryWith(users, SessionArgs, StoreTypes)

StoreMemory == StoreMemoryFor(Users) /\ UNCHANGED appVars

\* storeMemory of the earlier engine, which writes no sessionId attribute
LegacyStoreMemory ==
  \E userId \in Users, rnd \in Rands, type \in StoreTypes :
    LET rec == [id |-> [t |-> now, r |-> rnd], userId |-> userId,
                sessionId |-> Undefined, timestamp |-> now, type |-> type]
    IN /\ last.op = "none"
       /\ Cardinality(Upsert(index, rec)) <= MaxRecords
       /\ index' = Upsert(index, rec)
       /\ UNCHANGED appVars
       /\ UNCHANGED <<isInitialized, initPc, now, ticks, last, rerun>>

\* searchMemories, called with a userId, a sessionId and a limit of the given sets
SearchMemoriesWith(users, sessions, limits) ==
  \E userId \in users, limit \in limits, sessionId \in sessions :
    LET call == [Idle EXCEPT !.op = "search", !.userId = userId,
                             !.sessionId = sessionId, !.limit = limit,
                             !.ready = isInitialized, !.at = now]
        filter == SearchFilter(userId, sessionId)
        topK == SearchTopK(limit)
    IN /\ last.op = "none"
       /\ UNCHANGED <<isInitialized, initPc, index, now, ticks, rerun>>
       /\ IF ~isInitialized
          THEN last' = SearchDisabled(call)
          ELSE \E debugFailed \in (IF Truthy(sessionId) THEN CallFails(EmbeddingDim) ELSE {FALSE}),
                  failed \in CallFails(EmbeddingDim) :
                 IF failed
                 THEN last' = SearchCatch([call EXCEPT !.debugFailed = debugFailed, !.failed = TRUE])
                 ELSE \E matches \in QueryAnswers :
                        LET searchResults == ProcessResults(matches, sessionId)
                        IN last' = [call EXCEPT
                                      !.debugFailed = debugFailed,
                                      !.answered = Len(matches),
                                      !.low = BelowThreshold(matches),
                                      !.faithful = Faithful(matches, filter, topK),
                                      !.kept = searchResults,
                                      !.results =
                                         IF Len(matches) = 0 THEN <<>>
                                         ELSE RankAndSlice(searchResults, limit, now)]

\* searchMemories, called with a userId of the set `users`
SearchMemoriesFor(users) == SearchMemoriesWith(users, SessionArgs, Limits)

SearchMemories == SearchMemoriesFor(Users) /\ UNCHANGED appVars

\* The same search is run again: same arguments, and the index gives the
\* same answer (the candidates are fixed); only the clock may have moved.
ReSearch ==
  /\ last.op = "search"
  /\ last.ready /\ ~last.failed
  /\ rerun = <<>>
  /\ isInitialized
  /\ rerun' = <<[at |-> now,
                 results |-> RankAndSlice(last.kept, last.limit, now)]>>
  /\ UNCHANGED appVars
  /\ UNCHANGED <<isInitialized, initPc, index, now, ticks, last>>

MemoryList(matches) == [i \in 1..Len(matches) |-> matches[i]]

\* getUserMemories, called with a userId of the set `users`
GetUserMemoriesFor(users) ==
  \E userId \in users :
    LET call == [Idle EXCEPT !.op = "getUserMemories", !.userId = userId,
                             !.ready = isInitialized, !.at = now]
        filter == [userId |-> userId, sessOp |-> "none", sessVal |-> ""]
    IN /\ last.op = "none"
       /\ UNCHANGED <<isInitialized, initPc, index, now, ticks, rerun>>
       /\ IF ~isInitialized
          THEN last' = ThrowNotInitialized(call)
          ELSE \E failed \in CallFails(UserMemoriesDim), unreachable \in BOOLEAN :
                 \* a call fails because the index cannot be reached, or
                 \* because the index rejects it
                 IF failed
                 THEN last' = RethrowMemoryError([call EXCEPT !.failed = TRUE,
                                                              !.unreachable = unreachable])
                 ELSE \E matches \in QueryAnswers :
                        last' = [call EXCEPT
                                   !.answered = Len(matches),
                                   !.faithful = Faithful(matches, filter, EnumerateTopK),
                                   !.results = MemoryList(matches)]

GetUserMemories == GetUserMemoriesFor(Users) /\ UNCHANGED appVars

MissingId == [t |-> 0, r |-> 0]

DeleteMemory ==
  \E id \in {r.id : r \in index} \cup {MissingId} :
    LET call == [Idle EXCEPT !.op = "deleteMemory", !.id = id,
                             !.ready = isInitialized, !.at = now]
    IN /\ last.op = "none"
       /\ UNCHANGED appVars
       /\ UNCHANGED <<isInitialized, initPc, now, ticks, rerun>>
       /\ IF ~isInitialized
          THEN /\ last' = ThrowNotInitialized(call)
               /\ UNCHANGED index
          ELSE \E failed \in CallFails(EmbeddingDim) :
                 IF failed
                 THEN /\ last' = RethrowMemoryError([call EXCEPT !.failed = TRUE])
                      /\ UNCHANGED index
                 ELSE /\ index' = {r \in index : r.id # id}
                      /\ last' = [call EXCEPT !.ret = "true"]

\* query-then-delete, shared by deleteSessionMemories and deleteUserMemories;
\* answers: what the query may return
DeleteByFilter(call, filter, answers) ==
  /\ last.op = "none"
  /\ UNCHANGED <<isInitialized, initPc, now, ticks, rerun>>
  /\ IF ~isInitialized
     THEN /\ last' = ThrowNotInitialized(call)
          /\ UNCHANGED index
     ELSE \E failed \in CallFails(DeleteDim) :
            IF failed
            THEN /\ last' = RethrowMemoryError([call EXCEPT !.failed = TRUE])
                 /\ UNCHANGED index
            ELSE \E matches \in answers :
                   LET answered == [call EXCEPT
                                      !.answered = Len(matches),
                                      !.faithful = Faithful(matches, filter, EnumerateTopK)]
                       memoryIds == {matches[i].rec.id : i \in 1..Len(matches)}
                   IN IF Len(matches) = 0
                      THEN /\ last' = answered
                           /\ UNCHANGED index
                      ELSE \E deleteFailed \in BOOLEAN :
                             IF deleteFailed
                             THEN /\ last' = RethrowMemoryError([answered EXCEPT !.failed = TRUE])
                                  /\ UNCHANGED index
                             ELSE /\ index' = {r \in index : r.id \notin memoryIds}
                                  /\ last' = [answered EXCEPT !.count = Len(matches)]

DeleteSessionMemories ==
  \E sessionId \in Sessions \cup {""} :
    DeleteByFilter([Idle EXCEPT !.op = "deleteSessionMemories", !.sessionId = sessionId,
                                !.ready = isInitialized, !.at = now],
                   [userId |-> AnyUser, sessOp |-> "eq", sessVal |-> sessionId],
                   QueryAnswers)
    /\ UNCHANGED appVars

\* deleteUserMemories, called with a userId of the set `users`
DeleteUserMemoriesFor(users) ==
  \E userId \in users :
    DeleteByFilter([Idle EXCEPT !.op = "deleteUserMemories", !.userId = userId,
                                !.ready = isInitialized, !.at = now],
                   [userId |-> userId, sessOp |-> "none", sessVal |-> ""],
                   QueryAnswers)

DeleteUserMemories == DeleteUserMemoriesFor(Users) /\ UNCHANGED appVars

\* Answers to a query with the all-zero dummy vector: stored records in any
\* order, all with the same score.
DummyAnswers ==
  UNION {{[i \in 1..Cardinality(S) |-> [rec |-> o[i], score |-> 0]] : o \in Orderings(S)} :
           S \in SUBSET index}

UserMemoriesFilter(userId) == [userId |-> userId, sessOp |-> "none", sessVal |-> ""]
NoFilter == [userId |-> AnyUser, sessOp |-> "none", sessVal |-> ""]

\* the forEach over sampleResults.matches: only the keys of `types` count
CountTypes(matches) ==
  [k \in CountedTypes |->
     Cardinality({i \in 1..Len(matches) : matches[i].rec.type = k})]

\* the fallback of the inner catch: floor of 60%, 30% and 10% of the total
EstimatedTypes(totalMemories) ==
  [k \in CountedTypes |->
     CASE k = "conversation" -> (totalMemories * 6) \div 10
       [] k = "web_search" -> (totalMemories * 3) \div 10
       [] OTHER -> totalMemories \div 10]

GetMemoryStats ==
  \E userId \in Users \cup {Undefined} :
    LET call == [Idle EXCEPT !.op = "getMemoryStats", !.userId = userId,
                             !.ready = isInitialized, !.at = now]
    IN /\ last.op = "none"
       /\ UNCHANGED appVars
       /\ UNCHANGED <<isInitialized, initPc, index, now, ticks, rerun>>
       /\ IF ~isInitialized
          THEN last' = ThrowNotInitialized(call)
          ELSE \E failed \in CallFails(EmbeddingDim) :
                 IF failed
                 THEN last' = RethrowMemoryError([call EXCEPT !.failed = TRUE])
                 ELSE \E userFailed \in (IF Truthy(userId) THEN CallFails(StatsDim) ELSE {FALSE}),
                         typesFailed \in CallFails(StatsDim),
                         userResults \in DummyAnswers, sampleResults \in DummyAnswers :
                        LET totalMemories == Cardinality(index)
                            userMemories == IF Truthy(userId) /\ ~userFailed
                                            THEN Len(userResults) ELSE 0
                            types == IF typesFailed THEN EstimatedTypes(totalMemories)
                                     ELSE CountTypes(sampleResults)
                        IN last' = [call EXCEPT
                                      !.userFailed = userFailed,
                                      !.typesFailed = typesFailed,
                                      !.faithful =
                                         /\ (Truthy(userId) /\ ~userFailed)
                                              => Faithful(userResults, UserMemoriesFilter(userId),
                                                          EnumerateTopK)
                                         /\ ~typesFailed
                                              => Faithful(sampleResults, NoFilter, SampleTopK),
                                      !.totalMemories =
                                         IF Truthy(userId) THEN userMemories ELSE totalMemories,
                                      !.types = types]

\* isReady(): the flag as it stands
IsReady ==
  /\ last.op = "none"
  /\ last' = [Idle EXCEPT !.op = "isReady", !.ready = isInitialized, !.at = now,
                          !.ret = IF isInitialized THEN "true" ELSE "false"]
  /\ UNCHANGED appVars
  /\ UNCHANGED <<isInitialized, initPc, index, now, ticks, rerun>>

\* the caller takes the result of the call
Return ==
  /\ last.op # "none"
  /\ last' = Idle
  /\ rerun' = <<>>
  /\ UNCHANGED appVars
  /\ UNCHANGED <<isInitialized, initPc, index, now, ticks>>

Next ==
  \/ InitializeOk
  \/ InitializeFail
  \/ Tick
  \/ StoreMemory
  \/ LegacyStoreMemory
  \/ SearchMemories
  \/ GetUserMemories
  \/ DeleteMemory
  \/ DeleteSessionMemories
  \/ DeleteUserMemories
  \/ GetMemoryStats
  \/ IsReady
  \/ Return

Spec == Init /\ [][Next]_vars

\* ------------------------------------------- the ranking in isolation
\* An index already holding memories of one conversation, stored at the
\* given hours; the clock stands at or after the latest of them.
RankHours == {0, 1, 24}
RankStarts == {1, 24}
RankRecords ==
  {[id |-> [t |-> h, r |-> k], userId |-> "u1", sessionId |-> "s1", timestamp |-> h,
    type |-> "conversation"] :
     h \in RankHours, k \in Rands}

InitRank ==
  /\ isInitialized = TRUE
  /\ initPc = "done"
  /\ now \in RankStarts
  /\ index \in {S \in SUBSET RankRecords :
                  Cardinality(S) <= MaxRecords /\ \A r \in S : r.timestamp <= now}
  /\ ticks = 0
  /\ last = Idle
  /\ rerun = <<>>
  /\ AppIdle

NextRank ==
  \/ Tick
  \/ SearchMemories
  \/ ReSearch
  \/ Return

SpecRank == InitRank /\ [][NextRank]_vars

\* ---------------------------------------------- statistics in isolation
\* An index already holding documents of several kinds of two users.
StatsRecord(n, userId, type) ==
  [id |-> [t |-> 0, r |-> n], userId |-> userId, sessionId |-> "s1", timestamp |-> 0,
   type |-> type]

StatsRecords ==
  {StatsRecord(1, "u1", "conversation"), StatsRecord(2, "u1", "web_search"),
   StatsRecord(3, "u1", "summary"), StatsRecord(4, "u2", "conversation"),
   StatsRecord(5, "u2", "web_search"), StatsRecord(6, "u2", "summary")}

InitStats ==
  /\ isInitialized = TRUE
  /\ initPc = "done"
  /\ now = 0
  /\ index \in {S \in SUBSET StatsRecords : Cardinality(S) <= MaxRecords}
  /\ ticks = 0
  /\ last = Idle
  /\ rerun = <<>>
  /\ AppIdle

NextStats ==
  \/ GetMemoryStats
  \/ Return

SpecStats == InitStats /\ [][NextStats]_vars

\* ------------------------------------------ a long conversation deleted
\* An index holding a conversation of up to one memory more than a query
\* returns at most, with or without a memory of another conversation.
BulkSizes == {0, 1, 2, EnumerateTopK, EnumerateTopK + 1}

BulkRecord(n) ==
  [id |-> [t |-> 0, r |-> n], userId |-> "u1", sessionId |-> "s1", timestamp |-> 0,
   type |-> "conversation"]

BulkOthers ==
  {[id |-> [t |-> 0, r |-> 0], userId |-> "u2", sessionId |-> "s2", timestamp |-> 0,
    type |-> "conversation"]}

InitBulk ==
  /\ isInitialized = TRUE
  /\ initPc = "done"
  /\ now = 0
  /\ index \in {{BulkRecord(n) : n \in 1..k} \cup X : k \in BulkSizes, X \in SUBSET BulkOthers}
  /\ ticks = 0
  /\ last = Idle
  /\ rerun = <<>>
  /\ AppIdle

\* What an index that applies the filter answers to a dummy-vector query:
\* the matching records in the order of their ids, and when there are more
\* than topK of them, the first or the last topK.
PageAnswers(filter, topK) ==
  LET matching == {r \in index : Satisfies(filter, r, TRUE)}
      n == Cardinality(matching)
      present == {r.id.r : r \in matching}
      numbers == SelectSeq([i \in 1..(EnumerateTopK + 2) |-> i - 1], LAMBDA k : k \in present)
      ordered == [i \in 1..n |->
                    [rec |-> CHOOSE r \in matching : r.id.r = numbers[i], score |-> 0]]
  IN IF n <= topK THEN {ordered}
     ELSE {SubSeq(ordered, 1, topK), SubSeq(ordered, n - topK + 1, n)}

\* deleteSessionMemories against an index that applies the filter
PagedDeleteSessionMemories ==
  \E sessionId \in Sessions \cup {""} :
    LET filter == [userId |-> AnyUser, sessOp |-> "eq", sessVal |-> sessionId]
    IN DeleteByFilter([Idle EXCEPT !.op = "deleteSessionMemories", !.sessionId = sessionId,
                                   !.ready = isInitialized, !.at = now],
                      filter, PageAnswers(filter, EnumerateTopK))
       /\ UNCHANGED appVars

\* deleteUserMemories against an index that applies the filter
PagedDeleteUserMemories ==
  \E userId \in Users :
    LET filter == [userId |-> userId, sessOp |-> "none", sessVal |-> ""]
    IN DeleteByFilter([Idle EXCEPT !.op = "deleteUserMemories", !.userId = userId,
                                   !.ready = isInitialized, !.at = now],
                      filter, PageAnswers(filter, EnumerateTopK))
       /\ UNCHANGED appVars

NextBulk ==
  \/ PagedDeleteSessionMemories
  \/ PagedDeleteUserMemories
  \/ Return

SpecBulk == InitBulk /\ [][NextBulk]_vars

\* ------------------------------------------- calls with an empty userId
\* An engine whose initialization has finished, called with any userId
\* argument; the clock stands still.
InitArgs ==
  /\ isInitialized \in BOOLEAN
  /\ initPc = "done"
  /\ index = {}
  /\ now = 0
  /\ ticks = 0
  /\ last = Idle
  /\ rerun = <<>>
  /\ AppIdle

StoreMemoryAnyUser == StoreMemoryFor(UserArgs) /\ UNCHANGED appVars
SearchMemoriesAnyUser == SearchMemoriesFor(UserArgs) /\ UNCHANGED appVars
GetUserMemoriesAnyUser == GetUserMemoriesFor(UserArgs) /\ UNCHANGED appVars
DeleteUserMemoriesAnyUser == DeleteUserMemoriesFor(UserArgs) /\ UNCHANGED appVars

NextArgs ==
  \/ StoreMemoryAnyUser
  \/ SearchMemoriesAnyUser
  \/ GetUserMemoriesAnyUser
  \/ DeleteUserMemoriesAnyUser
  \/ Return

SpecArgs == InitArgs /\ [][NextArgs]_vars

\* ------------------------------------------------- the chat transcript
ChatIsReady == chatPc = "ready"

\* MongoChatManager.initialize: the connection is made, or the catch block
\* leaves the manager not ready
ChatInitializeOk ==
  /\ chatPc = "connecting"
  /\ chatPc' = "ready"
  /\ UNCHANGED <<chat, req, calls>>
  /\ UNCHANGED <<isInitialized, initPc, index, now, ticks, last, rerun>>

ChatInitializeFail ==
  /\ chatPc = "connecting"
  /\ chatPc' = "failed"
  /\ UNCHANGED <<chat, req, calls>>
  /\ UNCHANGED <<isInitialized, initPc, index, now, ticks, last, rerun>>

\* createChatSession inserts a session without messages
CreateChatSession ==
  /\ ChatIsReady
  /\ req.op = "none"
  /\ \E sessionId \in ChatSessions \ DOMAIN chat :
       chat' = chat @@ (sessionId :> <<>>)
  /\ UNCHANGED <<chatPc, req, calls>>
  /\ UNCHANGED <<isInitialized, initPc, index, now, ticks, last, rerun>>

\* the roles of the next turn explored: either role opens a transcript, and a
\* turn is followed by a turn of the other role
NextRoles(messages) ==
  IF Len(messages) = 0 THEN {"user", "assistant"}
  ELSE IF messages[Len(messages)].role = "user" THEN {"assistant"} ELSE {"user"}

\* addMessage pushes a message at the end of the session's messages; its
\* content is written here as its position in the transcript
AddMessage ==
  /\ ChatIsReady
  /\ req.op = "none"
  /\ \E sessionId \in DOMAIN chat :
       /\ Len(chat[sessionId]) < MaxMessages
       /\ \E role \in NextRoles(chat[sessionId]) :
            chat' = [chat EXCEPT ![sessionId] =
                       Append(@, [role |-> role, content |-> Len(@) + 1,
                                  timestamp |-> now])]
  /\ UNCHANGED <<chatPc, req, calls>>
  /\ UNCHANGED <<isInitialized, initPc, index, now, ticks, last, rerun>>

Null == [conversationId |-> Undefined, messages |-> <<>>, threw |-> FALSE]

LoadCatchRethrows == [Null EXCEPT !.threw = TRUE]

\* catch block of loadConversationMemory
LoadCatch == Null

\* loadConversationMemory: null when the chat manager is not ready, when the
\* session is not found, and from the catch block when the read fails
LoadConversationMemory(conversationId, readFails) ==
  IF ~ChatIsReady THEN Null
  ELSE IF readFails THEN LoadCatch
  ELSE IF conversationId \notin DOMAIN chat THEN Null
  ELSE [conversationId |-> conversationId, messages |-> chat[conversationId],
        threw |-> FALSE]

\* toLocaleTimeString keeps the time of the day
ToLocaleTimeString(timestamp) == timestamp % DayHours

\* formatConversationHistory: one line "{index}. {role} ({time}): {content}"
\* for each message, numbered from 1 in the order of the messages
FormatConversationHistory(messages) ==
  [i \in 1..Len(messages) |->
     [index |-> i,
      role |-> IF messages[i].role = "user" THEN "User" ELSE "Assistant",
      time |-> ToLocaleTimeString(messages[i].timestamp),
      content |-> messages[i].content]]

\* messages.slice(0, 15)
RecentMessagesFromStart(messages) ==
  SubSeq(messages, 1, Min(Len(messages), ContextWindow))

\* messages.slice(-15)
RecentMessages(messages) ==
  SubSeq(messages, Max(1, Len(messages) - ContextWindow + 1), Len(messages))

\* getConversationContext as a function of the store and of the read's fate
ConversationContext(conversationId, readFails) ==
  LET memory == LoadConversationMemory(conversationId, readFails)
  IN IF memory.threw THEN [NoContext EXCEPT !.threw = TRUE]
     ELSE IF memory = Null \/ Len(memory.messages) = 0 THEN NoContext
     ELSE [header |-> TRUE,
           lines |-> FormatConversationHistory(RecentMessages(memory.messages)),
           threw |-> FALSE]

\* the fates of a read of the chat store: it is only made by a ready manager
ReadFates == IF ChatIsReady THEN BOOLEAN ELSE {FALSE}

\* getConversationContext called on its own
GetConversationContext ==
  /\ req.op = "none"
  /\ \E conversationId \in Sessions, readFails \in ReadFates :
       LET context == ConversationContext(conversationId, readFails)
       IN req' = [NoRequest EXCEPT !.op = "getConversationContext",
                                   !.sessionId = conversationId,
                                   !.chatFailed = readFails,
                                   !.context = context,
                                   !.outcome = IF context.threw THEN "throws"
                                               ELSE "returns"]
  /\ UNCHANGED <<chatPc, chat, calls>>
  /\ UNCHANGED <<isInitialized, initPc, index, now, ticks, last, rerun>>

\* the caller takes the result of the request
ReturnRequest ==
  /\ req.op # "none"
  /\ req.pc \in {"idle", "done"}
  /\ last.op = "none"
  /\ req' = NoRequest
  /\ UNCHANGED <<chatPc, chat, calls>>
  /\ UNCHANGED <<isInitialized, initPc, index, now, ticks, last, rerun>>

NextConversation ==
  \/ ChatInitializeOk
  \/ ChatInitializeFail
  \/ Tick
  \/ CreateChatSession
  \/ AddMessage
  \/ GetConversationContext
  \/ ReturnRequest

SpecConversation == Init /\ [][NextConversation]_vars

\* ------------------------------------------------------ the orchestrator
\* the limit of the memory search of a request, and of a follow-up question
SearchLimit == 5
FollowUpSearchLimit == 8

\* a userId of a request: a user, or none
RequestUsers == {"u1", ""}
\* a sessionId of a request: a session, the empty string, or none
RequestSessions == {"s1", "", Undefined}

\* processQuery up to its first await: the request is validated and the
\* memory search is made for a request with a userId and a sessionId when
\* the engine is ready
BeginProcessQuery(userId, sessionId, bodySessionId, webSearch) ==
  /\ req.op = "none"
  /\ req' = [NoRequest EXCEPT
               !.op = "processQuery",
               !.userId = userId, !.sessionId = sessionId,
               !.bodySessionId = bodySessionId, !.webSearch = webSearch,
               !.searchReady = isInitialized,
               !.pc = IF Truthy(userId) /\ isInitialized /\ Truthy(sessionId)
                      THEN "search" ELSE "respond"]
  /\ UNCHANGED <<chatPc, chat, calls>>
  /\ UNCHANGED <<isInitialized, initPc, index, now, ticks, last, rerun>>

\* processQuery called with a request
ProcessQuery ==
  \E userId \in RequestUsers, sessionId \in RequestSessions, webSearch \in BOOLEAN :
    BeginProcessQuery(userId, sessionId, sessionId, webSearch)

\* POST /api/agent: query, context and userId of the body are handed to
\* processQuery; the sessionId of the body is not
PostAgent ==
  \E userId \in RequestUsers, sessionId \in RequestSessions, webSearch \in BOOLEAN :
    BeginProcessQuery(userId, Undefined, sessionId, webSearch)

\* catch block around the memory search: the request goes on without memories
SearchFailureIgnored(call) == <<>>

\* the memory search of the request
ProcessQuerySearch ==
  /\ req.op = "processQuery"
  /\ req.pc = "search"
  /\ SearchMemoriesWith({req.userId}, {req.sessionId}, {SearchLimit, FollowUpSearchLimit})
  /\ req' = [req EXCEPT
               !.pc = "respond",
               !.searchFailed = last'.failed,
               !.memories = IF last'.outcome = "throw" THEN SearchFailureIgnored(last')
                            ELSE last'.results,
               !.trace = Append(@, "search")]
  /\ UNCHANGED <<chatPc, chat, calls>>

ContextMessageMemoriesFirst(context, memories) ==
  (IF Len(memories) > 0 THEN <<[part |-> "memories", context |-> NoContext, memories |-> memories]>>
   ELSE <<>>)
  \o (IF context.header THEN <<[part |-> "transcript", context |-> context, memories |-> <<>>]>>
      ELSE <<>>)

\* contextMessage of getDirectLLMResponse: the conversation context when there
\* is one, then the memories in the order they were given
ContextMessage(context, memories) ==
  (IF context.header THEN <<[part |-> "transcript", context |-> context, memories |-> <<>>]>>
   ELSE <<>>)
  \o (IF Len(memories) > 0 THEN <<[part |-> "memories", context |-> NoContext, memories |-> memories]>>
      ELSE <<>>)

\* catch block around getConversationContext: no conversation context
ContextFailureIgnored(context) == IF context.threw THEN NoContext ELSE context

\* a response that was produced from a prompt; enhanceResponse puts the
\* memories of the request in front of it
EnhanceResponse(prompt, webSearch, memories) ==
  <<[prompt |-> prompt, searchUsed |-> webSearch, memories |-> memories]>>

StoreOutcomeStrict(ret) ==
  IF ret \in {"memory_disabled", "memory_error"} THEN "throws" ELSE "returns"

\* the result of storeMemory is not looked at
StoreOutcome(ret) == "returns"

\* the response is produced: by the web search tool from the query, or by the
\* model from the conversation context and the memories; then the request
\* goes on to store the interaction for a request with a userId when the
\* engine is ready
ProcessQueryRespond ==
  /\ req.op = "processQuery"
  /\ req.pc = "respond"
  /\ last.op = "none"
  /\ \E readFails \in (IF ~req.webSearch /\ Truthy(req.sessionId) THEN ReadFates ELSE {FALSE}),
        invokeFails \in BOOLEAN :
       LET context == IF ~req.webSearch /\ Truthy(req.sessionId)
                      THEN ContextFailureIgnored(ConversationContext(req.sessionId, readFails))
                      ELSE NoContext
           prompt == IF req.webSearch THEN <<>>
                     ELSE ContextMessage(context, req.memories)
           storing == Truthy(req.userId) /\ isInitialized
       IN IF invokeFails \/ context.threw
          THEN req' = [req EXCEPT !.pc = "done", !.chatFailed = readFails,
                                  !.context = context, !.prompt = prompt,
                                  !.invokeFailed = invokeFails,
                                  !.outcome = "throws"]
          ELSE req' = [req EXCEPT
                         !.pc = IF storing THEN "store" ELSE "done",
                         !.chatFailed = readFails,
                         !.context = context, !.prompt = prompt,
                         !.responded = TRUE,
                         !.answer = EnhanceResponse(prompt, req.webSearch, req.memories),
                         !.storeReady = isInitialized,
                         !.trace = Append(@, "respond"),
                         !.outcome = IF storing THEN "none" ELSE "returns"]
  /\ UNCHANGED <<chatPc, chat, calls>>
  /\ UNCHANGED <<isInitialized, initPc, index, now, ticks, last, rerun>>

ProcessQueryStoreBeforeResponse ==
  /\ req.op = "processQuery"
  /\ req.pc = "respond"
  /\ req.trace \in {<<>>, <<"search">>}
  /\ StoreMemoryWith({req.userId}, {req.sessionId},
                     {IF req.webSearch THEN "web_search" ELSE "conversation"})
  /\ req' = [req EXCEPT
               !.storeFailed = last'.ret # "id",
               !.stored = IF last'.ret = "id"
                          THEN <<CHOOSE r \in index' : r.id = last'.id>> ELSE <<>>,
               !.trace = Append(@, "store")]
  /\ UNCHANGED <<chatPc, chat, calls>>

\* the interaction is stored under the userId and the sessionId of the request
ProcessQueryStore ==
  /\ req.op = "processQuery"
  /\ req.pc = "store"
  /\ StoreMemoryWith({req.userId}, {req.sessionId},
                     {IF req.webSearch THEN "web_search" ELSE "conversation"})
  /\ req' = [req EXCEPT
               !.pc = "done",
               !.storeFailed = last'.ret # "id",
               !.stored = IF last'.ret = "id"
                          THEN <<CHOOSE r \in index' : r.id = last'.id>> ELSE <<>>,
               !.trace = Append(@, "store"),
               !.outcome = IF last'.outcome = "throw" THEN "returns"
                           ELSE StoreOutcome(last'.ret)]
  /\ UNCHANGED <<chatPc, chat, calls>>

\* the transcripts of the chat store when requests are served
AgentTranscripts ==
  {<<>>,
   <<[role |-> "user", content |-> 1, timestamp |-> 0]>>,
   <<[role |-> "user", content |-> 1, timestamp |-> 0],
     [role |-> "assistant", content |-> 2, timestamp |-> 0]>>}

\* requests are served while the engine is initializing or after it; the
\* chat store is ready or not and holds no session or one
InitAgent ==
  /\ isInitialized = FALSE
  /\ initPc = "running"
  /\ index = {}
  /\ now = 0
  /\ ticks = 0
  /\ last = Idle
  /\ rerun = <<>>
  /\ chatPc \in {"ready", "failed"}
  /\ chat \in {<<>>} \cup {("s1" :> t) : t \in AgentTranscripts}
  /\ chatPc = "failed" => chat = <<>>
  /\ req = NoRequest
  /\ calls = <<>>

NextAgent ==
  \/ InitializeOk
  \/ InitializeFail
  \/ Tick
  \/ ProcessQuery
  \/ PostAgent
  \/ ProcessQuerySearch
  \/ ProcessQueryRespond
  \/ ProcessQueryStore
  \/ GetConversationContext
  \/ ReturnRequest
  \/ Return

SpecAgent == InitAgent /\ [][NextAgent]_vars

\* ------------------------------------------------------ concurrent callers
\* the requests that call the one engine instance at the same time
Procs == {1, 2}

\* no engine call of a caller is in flight
NoCall ==
  [op |-> "none", pc |-> "idle", userId |-> "", sessionId |-> "", limit |-> 0,
   id |-> NoId, at |-> 0, snapshot |-> {}, before |-> {}, ids |-> {},
   leftover |-> {}, count |-> 0, removed |-> 0, results |-> <<>>, ret |-> "",
   overlapped |-> {}, outcome |-> "none"]

\* what an index that applies the filter answers from the records idx: the
\* matching records, best score first, at most topK of them
FaithfulAnswers(idx, filter, topK) ==
  {m \in UNION {Responses(S) : S \in SUBSET idx} :
     /\ Ranked(m)
     /\ LET matching == {r \in idx : Satisfies(filter, r, TRUE)}
        IN /\ {m[i].rec : i \in 1..Len(m)} \subseteq matching
           /\ Len(m) = Min(topK, Cardinality(matching))}

\* the results of a search whose query was answered from the records idx
SearchResultsFrom(idx, userId, sessionId, limit, t) ==
  {IF Len(m) = 0 THEN <<>> ELSE RankAndSlice(ProcessResults(m, sessionId), limit, t) :
     m \in FaithfulAnswers(idx, SearchFilter(userId, sessionId), SearchTopK(limit))}

\* a caller takes the result of its finished call
ReturnCall ==
  \E p \in Procs :
    /\ calls[p].pc = "done"
    /\ calls' = [calls EXCEPT ![p] = NoCall]
    /\ UNCHANGED <<chatPc, chat, req>>
    /\ UNCHANGED <<isInitialized, initPc, index, now, ticks, last, rerun>>

\* storeMemory up to its await of the upsert: the guard, and the id and the
\* record made from the document
StoreBegin ==
  \E p \in Procs, userId \in Users, rnd \in Rands :
    LET call == [NoCall EXCEPT !.op = "store", !.userId = userId, !.sessionId = "s1",
                               !.id = [t |-> now, r |-> rnd], !.at = now]
    IN /\ calls[p].op = "none"
       /\ calls' = [calls EXCEPT ![p] =
                      IF ~isInitialized
                      THEN [call EXCEPT !.pc = "done", !.ret = "memory_disabled",
                                        !.outcome = "return"]
                      ELSE [call EXCEPT !.pc = "upsert"]]
       /\ UNCHANGED <<chatPc, chat, req>>
       /\ UNCHANGED <<isInitialized, initPc, index, now, ticks, last, rerun>>

StoreFailureDisablesEngine == isInitialized' = FALSE

\* the catch block of storeMemory assigns no field of the engine
StoreFailureKeepsEngine == isInitialized' = isInitialized

\* the searches of the other callers that are in flight
SearchesInFlight(p) ==
  {q \in Procs \ {p} : calls[q].op = "search" /\ calls[q].pc = "query"}

\* the upsert of storeMemory is done, or it fails and the catch block returns;
\* a record written now is not one that was stored before the calls in
\* flight began
StoreUpsert ==
  \E p \in Procs, failed \in BOOLEAN :
    LET call == calls[p]
        rec == [id |-> call.id, userId |-> call.userId, sessionId |-> call.sessionId,
                timestamp |-> call.at, type |-> "conversation"]
    IN /\ call.op = "store" /\ call.pc = "upsert"
       /\ IF failed
          THEN /\ calls' = [calls EXCEPT ![p] =
                             [call EXCEPT !.pc = "done", !.ret = "memory_error",
                                          !.overlapped = SearchesInFlight(p),
                                          !.outcome = "return"]]
               /\ StoreFailureKeepsEngine
               /\ UNCHANGED index
          ELSE /\ Cardinality(Upsert(index, rec)) <= MaxRecords
               /\ index' = Upsert(index, rec)
               /\ calls' = [q \in Procs |->
                              IF q = p
                              THEN [call EXCEPT !.pc = "done", !.ret = "id",
                                                !.outcome = "return"]
                              ELSE [calls[q] EXCEPT !.before = {r \in @ : r.id # rec.id}]]
               /\ UNCHANGED isInitialized
       /\ UNCHANGED <<chatPc, chat, req>>
       /\ UNCHANGED <<initPc, now, ticks, last, rerun>>

\* searchMemories up to its await of the query: the guard
SearchBegin ==
  \E p \in Procs, userId \in Users, sessionId \in {"s1", Undefined} :
    LET call == [NoCall EXCEPT !.op = "search", !.userId = userId,
                               !.sessionId = sessionId, !.limit = MaxLimit]
    IN /\ calls[p].op = "none"
       /\ calls' = [calls EXCEPT ![p] =
                      IF ~isInitialized
                      THEN [call EXCEPT !.pc = "done", !.ret = "disabled",
                                        !.outcome = "return"]
                      ELSE [call EXCEPT !.pc = "query"]]
       /\ UNCHANGED <<chatPc, chat, req>>
       /\ UNCHANGED <<isInitialized, initPc, index, now, ticks, last, rerun>>

\* the query of searchMemories is answered from the records stored at that
\* moment and the results are ranked, or it fails and the catch block
\* returns nothing
SearchQuery ==
  \E p \in Procs, failed \in BOOLEAN :
    LET call == calls[p]
    IN /\ call.op = "search" /\ call.pc = "query"
       /\ IF failed
          THEN calls' = [calls EXCEPT ![p] =
                           [call EXCEPT !.pc = "done", !.ret = "failed",
                                        !.outcome = "return"]]
          ELSE \E results \in SearchResultsFrom(index, call.userId, call.sessionId,
                                                 call.limit, now) :
                 calls' = [calls EXCEPT ![p] =
                             [call EXCEPT !.pc = "done", !.ret = "results",
                                          !.snapshot = index, !.at = now,
                                          !.results = results,
                                          !.outcome = "return"]]
       /\ UNCHANGED <<chatPc, chat, req>>
       /\ UNCHANGED <<isInitialized, initPc, index, now, ticks, last, rerun>>

\* the filters of deleteSessionMemories and of deleteUserMemories
DeleteFilter(call) ==
  IF call.op = "deleteSessionMemories"
  THEN [userId |-> AnyUser, sessOp |-> "eq", sessVal |-> call.sessionId]
  ELSE [userId |-> call.userId, sessOp |-> "none", sessVal |-> ""]

\* a filtered delete up to its await of the query: the guard
DeleteBegin ==
  \E p \in Procs :
    \E call \in {[NoCall EXCEPT !.op = "deleteSessionMemories", !.sessionId = "s1"]}
               \cup {[NoCall EXCEPT !.op = "deleteUserMemories", !.userId = u] : u \in Users} :
      /\ calls[p].op = "none"
      /\ calls' = [calls EXCEPT ![p] =
                     IF ~isInitialized
                     THEN [call EXCEPT !.pc = "done", !.outcome = "throw"]
                     ELSE [call EXCEPT
                             !.pc = "query",
                             !.before = {r \in index : Satisfies(DeleteFilter(call), r, TRUE)}]]
      /\ UNCHANGED <<chatPc, chat, req>>
      /\ UNCHANGED <<isInitialized, initPc, index, now, ticks, last, rerun>>

\* the query of a filtered delete is answered with the ids of the records
\* that match at that moment; with no match the call returns 0
DeleteQuery ==
  \E p \in Procs, failed \in BOOLEAN :
    LET call == calls[p]
    IN /\ call.op \in {"deleteSessionMemories", "deleteUserMemories"}
       /\ call.pc = "query"
       /\ IF failed
          THEN calls' = [calls EXCEPT ![p] =
                           [call EXCEPT !.pc = "done", !.outcome = "throw"]]
          ELSE \E matches \in FaithfulAnswers(index, DeleteFilter(call), EnumerateTopK) :
                 LET memoryIds == {matches[i].rec.id : i \in 1..Len(matches)}
                 IN calls' = [calls EXCEPT ![p] =
                                IF Len(matches) = 0
                                THEN [call EXCEPT !.pc = "done", !.count = 0,
                                                  !.leftover = call.before \cap index,
                                                  !.outcome = "return"]
                                ELSE [call EXCEPT !.pc = "deleteMany", !.ids = memoryIds]]
       /\ UNCHANGED <<chatPc, chat, req>>
       /\ UNCHANGED <<isInitialized, initPc, index, now, ticks, last, rerun>>

\* deleteMany removes the records that have the ids, and the call returns the
\* number of ids; or it fails and the call throws
DeleteMany ==
  \E p \in Procs, failed \in BOOLEAN :
    LET call == calls[p]
    IN /\ call.pc = "deleteMany"
       /\ IF failed
          THEN /\ calls' = [calls EXCEPT ![p] =
                             [call EXCEPT !.pc = "done", !.outcome = "throw"]]
               /\ UNCHANGED index
          ELSE /\ index' = {r \in index : r.id \notin call.ids}
               /\ calls' = [calls EXCEPT ![p] =
                             [call EXCEPT
                                !.pc = "done",
                                !.count = Cardinality(call.ids),
                                !.removed = Cardinality({r \in index : r.id \in call.ids}),
                                !.leftover = call.before \cap index',
                                !.outcome = "return"]]
       /\ UNCHANGED <<chatPc, chat, req>>
       /\ UNCHANGED <<isInitialized, initPc, now, ticks, last, rerun>>

InitConcurrent ==
  /\ isInitialized = FALSE
  /\ initPc = "running"
  /\ index = {}
  /\ now = 0
  /\ ticks = 0
  /\ last = Idle
  /\ rerun = <<>>
  /\ chatPc = "connecting"
  /\ chat = <<>>
  /\ req = NoRequest
  /\ calls = [p \in Procs |-> NoCall]

\* stores and searches of concurrent callers
NextConcurrent ==
  \/ InitializeOk
  \/ InitializeFail
  \/ Tick
  \/ StoreBegin
  \/ StoreUpsert
  \/ SearchBegin
  \/ SearchQuery
  \/ ReturnCall

SpecConcurrent == InitConcurrent /\ [][NextConcurrent]_vars

\* stores and filtered deletes of concurrent callers
NextRace ==
  \/ InitializeOk
  \/ InitializeFail
  \/ Tick
  \/ StoreBegin
  \/ StoreUpsert
  \/ DeleteBegin
  \/ DeleteQuery
  \/ DeleteMany
  \/ ReturnCall

SpecRace == InitConcurrent /\ [][NextRace]_vars

\* ------------------------------------------- a conversation is deleted
\* the sessionId parameter of a DELETE /api/chat request; "" when it is missing
DeleteChatArgs == Sessions \cup {""}

\* DELETE /api/chat when the chat session was deleted: the memories of the
\* session are deleted if the engine is ready, a failure of that is only
\* logged, and success is reported
DeleteChatMemories(sessionId, request) ==
  LET filter == [userId |-> AnyUser, sessOp |-> "eq", sessVal |-> sessionId]
  IN /\ IF isInitialized
        THEN DeleteByFilter([Idle EXCEPT !.op = "deleteSessionMemories",
                                         !.sessionId = sessionId,
                                         !.ready = isInitialized, !.at = now],
                            filter, PageAnswers(filter, EnumerateTopK))
        ELSE UNCHANGED <<isInitialized, initPc, index, now, ticks, last, rerun>>
     /\ req' = [request EXCEPT !.searchReady = isInitialized,
                               !.outcome = "success"]

\* DELETE /api/chat
DeleteChat ==
  \E sessionId \in DeleteChatArgs, readFails \in ReadFates, deleteFails \in ReadFates :
    LET request == [NoRequest EXCEPT !.op = "deleteChat", !.sessionId = sessionId,
                                     !.chatFailed = readFails \/ deleteFails]
        answer(code) ==
          /\ req' = [request EXCEPT !.outcome = code]
          /\ UNCHANGED chat
          /\ UNCHANGED <<isInitialized, initPc, index, now, ticks, last, rerun>>
    IN /\ req.op = "none"
       /\ last.op = "none"
       /\ UNCHANGED <<chatPc, calls>>
       /\ IF ~Truthy(sessionId) THEN answer("MISSING_SESSION_ID")
          ELSE IF ~ChatIsReady THEN answer("CHAT_NOT_AVAILABLE")
          ELSE IF readFails THEN answer("DELETE_ERROR")
          ELSE IF sessionId \notin DOMAIN chat THEN answer("SESSION_NOT_FOUND")
          ELSE IF deleteFails THEN answer("DELETE_ERROR")
          ELSE /\ chat' = [s \in DOMAIN chat \ {sessionId} |-> chat[s]]
               /\ DeleteChatMemories(sessionId, request)

\* the memories of two sessions that the store may hold
CascadeRecord(n, sessionId) ==
  [id |-> [t |-> 0, r |-> n], userId |-> "u1", sessionId |-> sessionId,
   timestamp |-> 0, type |-> "conversation"]

CascadeRecords == {CascadeRecord(n, sessionId) : n \in 1..MaxRecords, sessionId \in Sessions}

\* a server that was started over a store with memories: the engine and the
\* chat store each became ready or not, and the chat store holds no session
\* or the session s1
InitCascade ==
  /\ isInitialized \in BOOLEAN
  /\ initPc = "done"
  /\ index \in {S \in SUBSET CascadeRecords :
                  \A r1, r2 \in S : r1.id = r2.id => r1 = r2}
  /\ now = 0
  /\ ticks = 0
  /\ last = Idle
  /\ rerun = <<>>
  /\ chatPc \in {"ready", "failed"}
  /\ chat \in {<<>>} \cup {("s1" :> t) : t \in AgentTranscripts}
  /\ req = NoRequest
  /\ calls = <<>>

NextCascade ==
  \/ DeleteChat
  \/ ReturnRequest
  \/ Return

SpecCascade == InitCascade /\ [][NextCascade]_vars

\* ------------------------------------------------------------- properties
ResultRecords == {last.results[i].rec : i \in 1..Len(last.results)}

\* matches that passed the threshold and were discarded by the session re-check
Excluded == last.answered - last.low - Len(last.kept)

\* C1: every result of a search scoped to a non-empty sessionId carries
\* exactly that sessionId, whatever the index answered.
SessionIsolation ==
  (last.op = "search" /\ Truthy(last.sessionId))
    => \A r \in ResultRecords : r.sessionId = last.sessionId

\* C1 witness: the index answered a search scoped to s1 with a record of
\* another session as well; that one was discarded and an s1 record returned.
SessionIsolationWitness ==
  /\ last.op = "search" /\ last.sessionId = "s1"
  /\ ~last.faithful
  /\ Excluded >= 1
  /\ Len(last.results) >= 1
  /\ \E r \in index : r.userId = last.userId /\ r.sessionId = "s2"

\* C2 (as claimed): no search, scoped or not, returns a record that has no
\* session (sessionId '' or no sessionId attribute).
OrphanExclusion ==
  last.op = "search"
    => \A r \in ResultRecords : r.sessionId # "" /\ r.sessionId # Undefined

\* C3: against an index that applies the filter, search and getUserMemories
\* return only records of the requested user.
UserIsolation ==
  (last.op \in {"search", "getUserMemories"} /\ last.faithful)
    => \A r \in ResultRecords : r.userId = last.userId

\* C3 witness: a search returned a record of its user while another user
\* holds a record with the same sessionId.
UserIsolationWitness ==
  /\ last.op = "search" /\ last.faithful
  /\ Len(last.results) >= 1
  /\ \E r \in index : r.userId # last.userId /\ r.sessionId = last.results[1].rec.sessionId

\* C4: no result of a search has a similarity below 0.70.
ThresholdEnforcement ==
  last.op = "search"
    => \A i \in 1..Len(last.results) : last.results[i].score >= 70

\* C4 witness: the index answered with a match below the threshold and one
\* at or above it; only the latter is returned.
ThresholdWitness ==
  /\ last.op = "search"
  /\ last.low >= 1
  /\ Len(last.results) >= 1

\* C5: a search returns at most `limit` results.
LimitRespected ==
  last.op = "search" => Len(last.results) <= last.limit

\* C5 witness: more candidates survived than the limit allows, and exactly
\* `limit` were returned.
LimitWitness ==
  /\ last.op = "search"
  /\ Len(last.kept) > last.limit
  /\ Len(last.results) = last.limit

\* the score of the ranking contract, 0.7 * similarity + 0.3 * recency with
\* recency = max(0, 1 - age / 24h), times 24000
ContractScore(x, t) ==
  (168 * x.score) + (300 * (IF t - x.rec.timestamp < 24 THEN 24 - (t - x.rec.timestamp) ELSE 0))

\* C6: the results are in non-increasing order of score, they are the
\* `limit` best of the candidates that survived the checks, and of two
\* survivors of similarity 0.9 the one stamped now precedes the one stamped
\* 23 hours ago.
RankingOrder ==
  last.op = "search" =>
    LET res == last.results
        kept == last.kept
        t == last.at
    IN /\ Len(res) = Min(last.limit, Len(kept))
       /\ \A i, j \in 1..Len(res) : i < j => res[i] # res[j]
       /\ \A i \in 1..Len(res) : \E k \in 1..Len(kept) : kept[k] = res[i]
       /\ \A i, j \in 1..Len(res) :
            i < j => ContractScore(res[i], t) >= ContractScore(res[j], t)
       /\ \A k \in 1..Len(kept) :
            (\A i \in 1..Len(res) : res[i] # kept[k])
              => \A i \in 1..Len(res) : ContractScore(res[i], t) >= ContractScore(kept[k], t)
       /\ \A i, j \in 1..Len(res) :
            (/\ res[i].score = 90 /\ res[j].score = 90
             /\ res[i].rec.timestamp = t /\ res[j].rec.timestamp = t - 23)
              => i < j

\* C6 witness: the index answered with the 23-hour-old record ahead of the
\* fresh one, both at similarity 0.9; the search returns the fresh one first.
RankingOrderWitness ==
  /\ last.op = "search"
  /\ Len(last.kept) = 2 /\ Len(last.results) = 2
  /\ last.kept[1].score = 90 /\ last.kept[2].score = 90
  /\ last.kept[1].rec.timestamp = last.at - 23
  /\ last.kept[2].rec.timestamp = last.at
  /\ last.results[1] = last.kept[2]

\* C7 (as claimed): the same search run again on the same candidates returns
\* the same list in the same order.
RankingDeterminism ==
  rerun # <<>> => rerun[1].results = last.results

NoneOlderThanADay(t) ==
  \A k \in 1..Len(last.kept) : t - last.kept[k].rec.timestamp <= 24

\* C7 (amended): the same search run again on the same candidates returns
\* the same list in the same order if the clock reads the same at both runs
\* or no candidate is older than 24 hours at the later run.
RankingDeterminismWithinADay ==
  (rerun # <<>> /\ (rerun[1].at = last.at \/ NoneOlderThanADay(rerun[1].at)))
    => rerun[1].results = last.results

\* C7 witness: two candidates stored at different hours are ranked at two
\* different clock readings, both within 24 hours of the older one.
RankingDeterminismWitness ==
  /\ rerun # <<>>
  /\ rerun[1].at # last.at
  /\ NoneOlderThanADay(rerun[1].at)
  /\ Len(last.kept) = 2
  /\ last.kept[1].rec.timestamp # last.kept[2].rec.timestamp
  /\ last.kept[1].score = last.kept[2].score
  /\ Len(rerun[1].results) = 2

DegradedOnAnyFailure ==
  /\ last.op \in {"store", "search"} => last.outcome = "return"
  /\ (last.op = "store" /\ ~last.ready) => last.ret = "memory_disabled"
  /\ (last.op = "store" /\ last.ready /\ last.failed) => last.ret = "memory_error"
  /\ (last.op = "search" /\ ~last.ready) => last.results = <<>>
  /\ (last.op = "search" /\ last.ready /\ (last.failed \/ last.debugFailed))
       => last.results = <<>>

\* what a caller of the hot path sees, the main query of a search counted
DegradedOnQueryFailure ==
  /\ last.op \in {"store", "search"} => last.outcome = "return"
  /\ (last.op = "store" /\ ~last.ready) => last.ret = "memory_disabled"
  /\ (last.op = "store" /\ last.ready /\ last.failed) => last.ret = "memory_error"
  /\ (last.op = "search" /\ ~last.ready) => last.results = <<>>
  /\ (last.op = "search" /\ last.ready /\ last.failed) => last.results = <<>>

\* a store that found the engine not ready, or whose upsert failed, wrote nothing
StoreWithoutWrite ==
  (last'.op = "store" /\ last.op = "none" /\ (~last'.ready \/ last'.failed))
    => index' = index

\* C9 (as claimed): store and search never raise; not ready, store writes
\* nothing and returns the disabled sentinel and search returns []; when an
\* index call fails during the call, store returns the error sentinel and
\* search returns [].
HotPathDegradation ==
  [][DegradedOnAnyFailure' /\ StoreWithoutWrite]_vars

\* C9 (amended): as claimed, except that search returns [] when its main
\* query fails; a failure of the preliminary diagnostic query alone is
\* swallowed and the search goes on.
HotPathDegradationOnQuery ==
  [][DegradedOnQueryFailure' /\ StoreWithoutWrite]_vars

\* C9 witness: the main query of a search failed while the index held a
\* record of the requested user and session; the search returned [].
HotPathDegradationWitness ==
  /\ last.op = "search" /\ last.ready /\ last.failed
  /\ last.outcome = "return" /\ last.results = <<>>
  /\ \E r \in index : r.userId = last.userId /\ r.sessionId = last.sessionId

\* C10: getUserMemories, deleteMemory, deleteSessionMemories and
\* deleteUserMemories raise when the engine is not ready or an index call
\* fails during the call.
AdminOperationsRaise ==
  (/\ last.op \in {"getUserMemories", "deleteMemory",
                   "deleteSessionMemories", "deleteUserMemories"}
   /\ (~last.ready \/ last.failed))
    => last.outcome = "throw"

\* C10 witness: deleteSessionMemories raised on a failed index call while
\* records of that session are stored.
AdminOperationsRaiseWitness ==
  /\ last.op = "deleteSessionMemories" /\ last.ready /\ last.failed
  /\ last.outcome = "throw"
  /\ \E r \in index : r.sessionId = last.sessionId

\* C11 (as claimed): getMemoryStats raises whenever one of the index calls it
\* makes fails, so no total or per-kind count is returned after a failed call.
StatsPropagateFailures ==
  (/\ last.op = "getMemoryStats" /\ last.ready
   /\ (last.failed \/ last.userFailed \/ last.typesFailed))
    => last.outcome = "throw"

\* the records getMemoryStats is to count for its argument
Counted ==
  IF Truthy(last.userId) THEN {r \in index : r.userId = last.userId} ELSE index

ByKind(k) == IF k \in DOMAIN last.types THEN last.types[k] ELSE 0

\* C15 (as claimed): against an index that answers faithfully and without
\* failures, the total of getMemoryStats is the number of records of the
\* given user (of all records when no user is given), and for each of the
\* four kinds the per-kind count is the number of those records of that kind.
StatsScoping ==
  (/\ last.op = "getMemoryStats" /\ last.outcome = "return"
   /\ ~last.failed /\ ~last.userFailed /\ ~last.typesFailed
   /\ last.faithful)
    => /\ last.totalMemories = Cardinality(Counted)
       /\ \A k \in Types : ByKind(k) = Cardinality({r \in Counted : r.type = k})

\* a delete call that found the engine ready and whose index calls succeeded
DeleteCompletes(op) ==
  /\ last.op = "none" /\ last'.op = op
  /\ last'.ready /\ ~last'.failed

\* one delete call whose target does not exist reports nothing affected
DeleteOfNothing ==
  /\ (DeleteCompletes("deleteMemory") /\ \A r \in index : r.id # last'.id)
       => (last'.outcome = "return" /\ last'.ret = "false" /\ index' = index)
  /\ (/\ DeleteCompletes("deleteSessionMemories") /\ last'.faithful
      /\ \A r \in index : r.sessionId # last'.sessionId)
       => (last'.outcome = "return" /\ last'.count = 0 /\ index' = index)
  /\ (/\ DeleteCompletes("deleteUserMemories") /\ last'.faithful
      /\ \A r \in index : r.userId # last'.userId)
       => (last'.outcome = "return" /\ last'.count = 0 /\ index' = index)

\* C12 (as claimed): deleting an id, a session or a user of which the index
\* holds nothing is not an error and reports nothing affected: deleteMemory
\* returns false, deleteSessionMemories and deleteUserMemories return 0.
IdempotentDelete ==
  [][DeleteOfNothing]_vars

\* one deleteSessionMemories call, answered by an index that applies the
\* filter, removes the records of the session and no other, and returns
\* their number
DeleteSessionExact ==
  (DeleteCompletes("deleteSessionMemories") /\ last'.faithful)
    => /\ last'.outcome = "return"
       /\ index' = {r \in index : r.sessionId # last'.sessionId}
       /\ last'.count = Cardinality({r \in index : r.sessionId = last'.sessionId})

\* C13 (as claimed): deleteSessionMemories(S1) removes exactly the records
\* whose sessionId is S1, however many there are, and returns their count;
\* no record of S1 is left for a later search scoped to S1 to return.
DeleteSessionExactness ==
  [][DeleteSessionExact]_vars

\* C14 (as claimed): on a ready engine whose index can be reached,
\* getUserMemories(U) returns the records stored for U, whatever their
\* session, a record stored with no session included.
UserMemoriesComplete ==
  (last.op = "getUserMemories" /\ last.ready /\ ~last.unreachable)
    => /\ last.outcome = "return"
       /\ ResultRecords = {r \in index : r.userId = last.userId}

\* one call of an operation that requires userId, made with an empty userId,
\* raises InvalidArgument and leaves the index alone
EmptyUserIdRejected ==
  (/\ last.op = "none"
   /\ last'.op \in {"store", "search", "getUserMemories", "deleteUserMemories"}
   /\ ~Truthy(last'.userId))
    => /\ last'.outcome = "invalid_argument"
       /\ ~last'.failed /\ last'.answered = 0
       /\ index' = index

\* C16 (as claimed): store, search, getUserMemories and deleteUserMemories
\* called with an empty userId raise InvalidArgument before any call to the
\* index is attempted.
InvalidArgumentRaised ==
  [][EmptyUserIdRejected]_vars

\* a store, search or isReady call made while initialize() is still running
\* sees the engine not ready and returns at once
CallBeforeInitialized ==
  (/\ initPc = "running" /\ last.op = "none"
   /\ last'.op \in {"store", "search", "isReady"})
    => /\ ~last'.ready /\ last'.outcome = "return"
       /\ last'.op = "store" => last'.ret = "memory_disabled"
       /\ last'.op = "search" => last'.results = <<>>
       /\ last'.op = "isReady" => last'.ret = "false"
       /\ initPc' = "running" /\ isInitialized' = isInitialized /\ index' = index

\* C17: the one initialization attempt of the engine ends once and is not
\* started again; the ready flag changes at most once, from false to true at
\* the end of a successful attempt, and never back; a store, search or
\* isReady call made before the attempt has ended observes not-ready and
\* returns without waiting.
InitializeOnce ==
  [][/\ initPc = "done" => (initPc' = "done" /\ isInitialized' = isInitialized)
     /\ isInitialized' # isInitialized
          => (~isInitialized /\ isInitialized' /\ initPc = "running" /\ initPc' = "done")
     /\ CallBeforeInitialized]_vars

\* C17 witness: a store made while initialize() was running returned the
\* disabled sentinel, and the attempt then succeeded.
InitializeOnceWitness ==
  /\ last.op = "store" /\ ~last.ready /\ last.ret = "memory_disabled"
  /\ initPc = "done" /\ isInitialized

\* one successful store uses an id that no stored record has, and adds a record
StoreUsesFreshId ==
  (last.op = "none" /\ last'.op = "store" /\ last'.ret = "id")
    => /\ \A r \in index : r.id # last'.id
       /\ index \subseteq index'
       /\ Cardinality(index') = Cardinality(index) + 1

\* C18 (as claimed): every id generated by a store differs from the id of
\* every record stored before, so a store never overwrites a record.
IdUniqueness ==
  [][StoreUsesFreshId]_vars

\* no step changes a record that exists: a record of the next state with the
\* id of a record of this state is that record
RecordsImmutable ==
  \A r \in index, q \in index' : q.id = r.id => q = r

\* what one engine call may do to the index
FrameOfCall ==
  last.op = "none" =>
    /\ last'.op \in {"search", "getUserMemories", "getMemoryStats", "isReady"}
         => index' = index
    /\ last'.op = "store"
         => (index \subseteq index' /\ Cardinality(index' \ index) <= 1)
    /\ last'.op \in {"deleteMemory", "deleteSessionMemories", "deleteUserMemories"}
         => index' \subseteq index

\* C19 (as claimed): no operation changes an attribute of a record that
\* exists; search, getUserMemories and getMemoryStats leave the index
\* unchanged, a store only adds one new record, and the delete operations
\* only remove records.
RecordsImmutableAfterCreation ==
  [][RecordsImmutable /\ FrameOfCall]_vars

\* the records one delete call, answered by an index that applies the
\* filter, removes all belong to one user
DeleteOfOneOwner ==
  (/\ last.op = "none"
   /\ last'.op \in {"deleteMemory", "deleteSessionMemories", "deleteUserMemories"}
   /\ last'.faithful)
    => \A r, q \in index \ index' : r.userId = q.userId

\* C20 (as claimed): a delete is scoped to one owner; deleteMemory(id) and
\* deleteSessionMemories(S) never remove records of two different users,
\* even when two users have records with the same sessionId.
OwnerScopedDeletes ==
  [][DeleteOfOneOwner]_vars

\* the transcript a standalone getConversationContext call was made on
Transcript ==
  IF req.sessionId \in DOMAIN chat THEN chat[req.sessionId] ELSE <<>>

\* the number of lines that a window of ContextWindow messages holds
WindowSize == Min(Len(Transcript), ContextWindow)

\* C21: a getConversationContext call that read a session with messages
\* renders exactly the last 15 of them (all when there are fewer): line i is
\* numbered i and shows the role and content of the i-th message of that
\* tail, so the lines are oldest first, in stored order, none outside the
\* tail appears and none inside it is dropped.
TailWindowRendered ==
  (/\ req.op = "getConversationContext"
   /\ ChatIsReady /\ ~req.chatFailed
   /\ Len(Transcript) > 0)
    => /\ req.context.header
       /\ Len(req.context.lines) = WindowSize
       /\ \A i \in 1..WindowSize :
            LET message == Transcript[Len(Transcript) - WindowSize + i]
                line == req.context.lines[i]
            IN /\ line.index = i
               /\ line.content = message.content
               /\ line.role = (IF message.role = "user" THEN "User" ELSE "Assistant")

\* C21 witness: a transcript longer than the window was rendered; its first
\* message is left out and the first line shows the second message.
TailWindowRenderedWitness ==
  /\ req.op = "getConversationContext"
  /\ Len(Transcript) > ContextWindow
  /\ req.context.header
  /\ Len(req.context.lines) = ContextWindow
  /\ req.context.lines[1].content = Len(Transcript) - ContextWindow + 1

\* the session of the request has no transcript to render, or it cannot be read
ContextUnavailable ==
  \/ ~ChatIsReady
  \/ req.chatFailed
  \/ Len(Transcript) = 0

\* C22: when the session does not exist or has no messages, the chat store is
\* not ready or its read fails, getConversationContext returns the empty
\* string and does not raise; and processQuery, answering from the model for
\* such a session, has no conversation context and still produces the
\* response whenever the model's invocation succeeds.
ContextNeverBlocks ==
  /\ (req.op = "getConversationContext" /\ ContextUnavailable)
       => (req.context = NoContext /\ req.outcome = "returns")
  /\ (/\ req.op = "processQuery" /\ req.pc \in {"store", "done"}
      /\ ~req.webSearch /\ Truthy(req.sessionId)
      /\ ContextUnavailable)
       => (req.context = NoContext /\ req.responded = ~req.invokeFailed)

\* C22 witness: the read of a session with messages failed while a request
\* was answered; the response was produced without conversation context.
ContextNeverBlocksWitness ==
  /\ req.op = "processQuery"
  /\ req.chatFailed
  /\ Len(Transcript) > 0
  /\ req.context = NoContext
  /\ req.responded

\* C23: when a request answered by the model has both a conversation context
\* and memories, the context handed to the model is the conversation context
\* followed by the memories, and the memories are in the order in which the
\* search of the request returned them.
PromptOrdering ==
  (/\ req.op = "processQuery" /\ req.responded /\ ~req.webSearch
   /\ req.context.header /\ Len(req.memories) > 0)
    => /\ Len(req.prompt) = 2
       /\ req.prompt[1].part = "transcript"
       /\ req.prompt[1].context = req.context
       /\ req.prompt[2].part = "memories"
       /\ req.prompt[2].memories = req.memories

\* C23 witness: a request with a transcript of two messages and two retrieved
\* memories was answered by the model.
PromptOrderingWitness ==
  /\ req.op = "processQuery" /\ req.responded /\ ~req.webSearch
  /\ Len(req.context.lines) = 2
  /\ Len(req.memories) = 2
  /\ Len(req.prompt) = 2

\* the step of processQuery named `ev` has been completed
Happened(ev) == \E i \in 1..Len(req.trace) : req.trace[i] = ev

\* every completed step `a` precedes every completed step `b`
Precedes(a, b) ==
  \A i, j \in 1..Len(req.trace) :
    (req.trace[i] = a /\ req.trace[j] = b) => i < j

OrderedSteps ==
  req.op = "processQuery"
    => /\ Precedes("search", "respond")
       /\ Precedes("respond", "store")
       /\ Happened("store") => (Happened("respond") /\ req.responded)
       /\ Len(req.memories) > 0 => Happened("search")
       /\ req.outcome = "throws" => (~Happened("store") /\ req.stored = <<>>)

MemoryDown ==
  \/ ~req.searchReady
  \/ req.searchFailed
  \/ req.responded /\ ~req.storeReady
  \/ req.storeFailed

\* the parts of the context that was handed to the model
PromptParts == {req.prompt[i].part : i \in 1..Len(req.prompt)}

\* C25: a finished request that met an engine that was not ready, a failed
\* search or a failed store raises only when producing the response itself
\* failed, and otherwise returns; its answer is built from the conversation
\* context whenever there is one, carries memories only if the search
\* delivered them, and is what it was before the store was attempted.
MemoryDownAvailability ==
  (req.op = "processQuery" /\ req.pc = "done" /\ MemoryDown)
    => /\ req.outcome = (IF req.invokeFailed THEN "throws" ELSE "returns")
       /\ req.responded = ~req.invokeFailed
       /\ (~req.searchReady \/ req.searchFailed)
            => (req.memories = <<>> /\ "memories" \notin PromptParts)
       /\ (req.responded /\ req.context.header) => "transcript" \in PromptParts
       /\ req.responded
            => req.answer = <<[prompt |-> req.prompt, searchUsed |-> req.webSearch,
                               memories |-> req.memories]>>

\* C25 witness: the search and the store of a request both failed; the
\* request returned an answer built from the transcript of its session.
MemoryDownAvailabilityWitness ==
  /\ req.op = "processQuery" /\ req.pc = "done"
  /\ req.searchFailed /\ req.storeFailed
  /\ req.outcome = "returns"
  /\ req.context.header
  /\ "transcript" \in PromptParts

\* the upsert of the store call of caller p fails in this step
StoreFailsNow(p) ==
  /\ calls[p].op = "store" /\ calls[p].pc = "upsert"
  /\ calls'[p].ret = "memory_error"

\* the search of caller q is answered in this step, and its results are made
\* of its arguments and of the records stored at this moment: at most limit
\* different stored records that satisfy its filter, none below the
\* threshold, in the order of the ranking at this time
SearchDetermined(q) ==
  (calls[q].op = "search" /\ calls[q].pc = "query" /\ calls'[q].ret = "results")
    => LET results == calls'[q].results
           filter == SearchFilter(calls[q].userId, calls[q].sessionId)
       IN /\ calls'[q].snapshot = index
          /\ Len(results) <= calls[q].limit
          /\ \A i \in 1..Len(results) :
               /\ results[i].rec \in index
               /\ Satisfies(filter, results[i].rec, TRUE)
               /\ results[i].score >= SimilarityThreshold
               /\ \A j \in 1..Len(results) : results[i].rec = results[j].rec => i = j
          /\ results = SortResults(results, now)

\* C26: a store call that fails changes neither the ready flag nor the stored
\* records nor the call of any other caller, whatever calls are in flight;
\* so each search returns what its arguments and the records stored at the
\* time of its query determine, as it would without the failed store.
StoreFailureIsolated ==
  [][/\ \A p \in Procs :
          StoreFailsNow(p)
            => /\ isInitialized' = isInitialized
               /\ index' = index
               /\ \A q \in Procs \ {p} : calls'[q] = calls[q]
     /\ \A q \in Procs : SearchDetermined(q)]_vars

\* C26 witness: a store failed while the search of the other caller was in
\* flight; the engine is still ready and that search returned a memory.
StoreFailureIsolatedWitness ==
  \E p \in Procs, q \in Procs :
    /\ calls[p].op = "store" /\ calls[p].ret = "memory_error"
    /\ q \in calls[p].overlapped
    /\ calls[q].op = "search" /\ calls[q].pc = "done"
    /\ Len(calls[q].results) > 0
    /\ isInitialized

\* a record that belongs to no session
Orphaned(r) == r.sessionId = "" \/ r.sessionId = Undefined

\* C27: the empty string is no session. A search called with sessionId ""
\* returns no orphaned record, and deleteSessionMemories("") deletes nothing,
\* when the index applies the filter it is given.
EmptySessionIsNoSession ==
  /\ (last.op = "search" /\ last.sessionId = "" /\ last.faithful)
       => \A r \in ResultRecords : ~Orphaned(r)
  /\ (/\ last.op = "deleteSessionMemories" /\ last.sessionId = ""
      /\ last.faithful /\ last.outcome = "return")
       => last.count = 0

\* C28: once DELETE /api/chat has reported success for a session, the store
\* holds no memory of that session, whether or not the engine was ready and
\* whether or not its deletion call failed.
CascadeOnChatDelete ==
  (req.op = "deleteChat" /\ req.outcome = "success")
    => \A r \in index : r.sessionId # req.sessionId

\* the filtered deletes that have returned and were not yet taken
ReturnedDeletes ==
  {p \in Procs : /\ calls[p].op \in {"deleteSessionMemories", "deleteUserMemories"}
                 /\ calls[p].pc = "done" /\ calls[p].outcome = "return"}

RECURSIVE SumOver(_, _)
SumOver(f, S) ==
  IF S = {} THEN 0
  ELSE LET p == CHOOSE q \in S : TRUE IN f[p] + SumOver(f, S \ {p})

\* C29: when no filtered delete is in flight, the counts that the returned
\* delete calls report add up to the number of records those calls removed
\* from the store; and when a delete call returns, every record that matched
\* its filter when it began is gone.
NoLostDeleteUpdate ==
  /\ (\A p \in Procs : calls[p].pc \in {"idle", "done"})
       => SumOver([p \in Procs |-> calls[p].count], ReturnedDeletes)
            = SumOver([p \in Procs |-> calls[p].removed], ReturnedDeletes)
  /\ \A p \in ReturnedDeletes : calls[p].leftover = {}

\* C30: every record that processQuery stores carries the sessionId of the
\* chat request it came from, and that sessionId is not empty.
NoOrphanFromOrchestrator ==
  (req.op = "processQuery" /\ req.stored # <<>>)
    => /\ Truthy(req.bodySessionId)
       /\ req.stored[1].sessionId = req.bodySessionId
====
